---- MODULE Spec2Model ----
(***************************************************************************)
(* Model of the "Move Messages" workflow of src/src/commands/moving.rs:    *)
(* the configuration dialog (MoveOptionsDialog), the destination resolver  *)
(* (MoveOptions::get_or_create_channel) and the relay with its rollback    *)
(* (move_messages).  Every await of the source is one step; the outcome of *)
(* every call to the chat platform is an input of the step.                *)
(***************************************************************************)
EXTENDS FiniteSets, Integers, Sequences, TLC

\* Longest run of source messages (the invoking message included).
MaxMsgs == 3

None == "None"

\* Authors of the guild, text channels, forums and public threads the user
\* can pick.  CtxChannel is ctx.channel_id(), the channel of the invocation.
Users == {"u1", "u2"}
Channels == {"c0", "c1"}
CtxChannel == "c0"
Forums == {"f1", "f2"}
Threads == {"t1"}
NewThreadId == "t_new"
Names == {"Moved conversation", "Renamed"}

Range(s) == {s[i] : i \in 1..Len(s)}

----------------------------------------------------------------------------
\* Component registry

DestinationOptions == {"Channel", "NewThread", "ExistingThread", "NewForumPost"}

\* MoveOptionComponent::needs_to_be_set
component_needs_to_be_set(c) == c \in {"Forum", "Thread", "Channel"}

\* MoveOptionComponent::can_defer
can_defer(c) == ~(c = "ChangeNameButton")

\* The subenums, variants in declaration order (Component::base_variants).
components(d) ==
    CASE d = "Channel" ->
           <<"SelectUsers", "Destination", "Channel", "ExecuteButton">>
      [] d = "NewThread" ->
           <<"SelectUsers", "Destination", "Channel", "ExecuteButton",
             "ChangeNameButton">>
      [] d = "ExistingThread" ->
           <<"SelectUsers", "Destination", "Thread", "ExecuteButton">>
      [] d = "NewForumPost" ->
           <<"SelectUsers", "Destination", "Forum", "ExecuteButton",
             "ChangeNameButton">>

\* Faulty variant: every component that can be required is required,
\* whatever the destination option.
needs_to_be_set_of_any(d) ==
    {c \in UNION {Range(components(o)) : o \in DestinationOptions} :
        component_needs_to_be_set(c)}

\* MoveDestinationOption::needs_to_be_set (Component::needs_to_be_set)
needs_to_be_set_of(d) ==
    {c \in Range(components(d)) : component_needs_to_be_set(c)}

----------------------------------------------------------------------------
VARIABLES
    \* MoveOptionsDialog
    destination, users, selected_users, thread_name,
    selected_forum, selected_thread, selected_channel, needs_to_be_set,
    \* move_messages: locals and position
    all_messages, pc, last, move_options, dest, idx,
    relayed_messages, abort_relaying, result,
    \* the chat platform
    copies, deleted_originals, thread_state, webhook, dialog_msg,
    failed_deletes, reply, failed_attachments,
    \* a second invocation of move_messages running at the same time
    other

dialogVars ==
    <<destination, users, selected_users, thread_name,
      selected_forum, selected_thread, selected_channel, needs_to_be_set>>

relayVars == <<dest, idx, relayed_messages, abort_relaying>>

worldVars ==
    <<copies, deleted_originals, thread_state, webhook, failed_deletes, reply>>

\* The attachments that could not be fetched, and the other invocation.
envVars == <<failed_attachments, other>>

vars ==
    <<destination, users, selected_users, thread_name,
      selected_forum, selected_thread, selected_channel, needs_to_be_set,
      all_messages, pc, last, move_options, dest, idx,
      relayed_messages, abort_relaying, result,
      copies, deleted_originals, thread_state, webhook, dialog_msg,
      failed_deletes, reply, failed_attachments, other>>

NoOptions ==
    [kind |-> None, channel_id |-> None, thread_id |-> None, name |-> None]

NoDestination ==
    [kind |-> None, channel |-> None, thread |-> None,
     created_from_first_message |-> FALSE, delete_on_fail |-> FALSE]

\* The interaction handled last: its component, whether it was acknowledged
\* (deferred, or handed to the modal), the value it carried, and what
\* interaction_received returned.
NoInteraction ==
    [comp |-> None, deferred |-> FALSE, value |-> None, ret |-> None]

\* No second invocation is running.
NoOther ==
    [pc |-> "idle", idx |-> 0, relayed_messages |-> <<>>, copies |-> <<>>,
     deleted_originals |-> {}, abort_relaying |-> FALSE, result |-> None]

Handled(c, v, r) == [comp |-> c, deferred |-> TRUE, value |-> v, ret |-> r]

\* A run of the source channel: the authors of its messages, oldest first.
\* A message is [id, author]; ids grow with time and the invoking message
\* has id 1.
MessageRuns == UNION {[1..n -> Users] : n \in 1..MaxMsgs}

start_msg_of(run) == [id |-> 1, author |-> run[1]]

\* channel_id.messages(GetMessages::new().after(start_msg.id)): the platform
\* lists the messages after the invoking one newest first.
messages_after(run) ==
    [k \in 1..(Len(run) - 1) |->
        [id |-> Len(run) + 1 - k, author |-> run[Len(run) + 1 - k]]]

Reverse(s) == [k \in 1..Len(s) |-> s[Len(s) + 1 - k]]

\* Faulty variant: the run is left in the order of the fetch.
collect_messages_unreversed(fetched, start_msg) == Append(fetched, start_msg)

\* all_messages.push(start_msg); all_messages.reverse()
collect_messages(fetched, start_msg) == Reverse(Append(fetched, start_msg))

\* users_by_message_count: the distinct authors of the run.
authors(msgs) == {msgs[i].author : i \in 1..Len(msgs)}

----------------------------------------------------------------------------
\* MoveOptionsDialog

\* update_set_fields: HashSet::retain keeps the components whose predicate
\* is true, that is those whose selection is_some().
update_set_fields(needs, forum, thread, channel) ==
    {c \in needs :
        CASE c = "Forum" -> forum # None
          [] c = "Thread" -> thread # None
          [] c = "Channel" -> channel # None
          [] OTHER -> FALSE}

\* switch_destination: the required-set after the switch (selected_thread is
\* None by then).
switch_needs(d, forum, channel) ==
    update_set_fields(needs_to_be_set_of(d), forum, None, channel)

\* build_move_options.  to_channel is the outcome of thread_id.to_channel:
\* "err", "private", "noparent", or the parent channel of the thread.
ToChannelOutcomes == {"err", "private", "noparent"} \cup Channels

build_selected_options(d, channel, thread, forum, name, to_channel) ==
         CASE d = "Channel" ->
                IF channel = None THEN [ret |-> "Err", opts |-> NoOptions]
                ELSE [ret |-> "OkSome",
                      opts |-> [kind |-> "Channel", channel_id |-> channel,
                                thread_id |-> None, name |-> None]]
           [] d = "NewThread" ->
                IF channel = None THEN [ret |-> "Err", opts |-> NoOptions]
                ELSE [ret |-> "OkSome",
                      opts |-> [kind |-> "NewThread", channel_id |-> channel,
                                thread_id |-> None, name |-> name]]
           [] d = "ExistingThread" ->
                IF thread = None THEN [ret |-> "Err", opts |-> NoOptions]
                ELSE IF to_channel \in {"err", "private", "noparent"}
                THEN [ret |-> "Err", opts |-> NoOptions]
                ELSE [ret |-> "OkSome",
                      opts |-> [kind |-> "ExistingThread",
                                channel_id |-> to_channel,
                                thread_id |-> thread, name |-> None]]
           [] d = "NewForumPost" ->
                IF forum = None THEN [ret |-> "Err", opts |-> NoOptions]
                ELSE [ret |-> "OkSome",
                      opts |-> [kind |-> "NewForumPost", channel_id |-> forum,
                                thread_id |-> None, name |-> name]]

\* Faulty variant: the required-set is not consulted.
build_move_options_unchecked(needs, d, channel, thread, forum, name, to_channel) ==
    build_selected_options(d, channel, thread, forum, name, to_channel)

build_move_options(needs, d, channel, thread, forum, name, to_channel) ==
    IF needs # {} THEN [ret |-> "OkNone", opts |-> NoOptions]
    ELSE build_selected_options(d, channel, thread, forum, name, to_channel)

\* The controls on screen are those of the current destination option.
Rendered(c) == pc = "dialog" /\ c \in Range(components(destination))

\* interaction.defer fails: the error leaves interaction_received and the
\* loop of move_messages through `?`.
InteractionFails(c) ==
    /\ last' = [comp |-> c, deferred |-> FALSE, value |-> None, ret |-> "Err"]
    /\ pc' = "done"
    /\ result' = "err"
    /\ UNCHANGED <<dialogVars, all_messages, move_options, relayVars,
                   worldVars, dialog_msg>>

\* Faulty variant: an identifier that does not parse is returned as an error.
UnknownComponentFails ==
    /\ pc = "dialog"
    /\ last' = [comp |-> "Unknown", deferred |-> FALSE, value |-> None,
                ret |-> "Err"]
    /\ pc' = "done"
    /\ result' = "err"
    /\ UNCHANGED <<dialogVars, all_messages, move_options, relayVars,
                   worldVars, dialog_msg>>
    /\ UNCHANGED envVars

\* custom_id does not parse: logged, Ok(None).
UnknownComponent ==
    /\ pc = "dialog"
    /\ last' = [comp |-> "Unknown", deferred |-> FALSE, value |-> None,
                ret |-> "OkNone"]
    /\ UNCHANGED <<dialogVars, all_messages, pc, move_options, relayVars,
                   result, worldVars, dialog_msg>>
    /\ UNCHANGED envVars

SelectUsers ==
    /\ Rendered("SelectUsers")
    /\ \E defer_ok \in BOOLEAN, values \in (SUBSET Users) \ {{}} :
         IF can_defer("SelectUsers") /\ ~defer_ok
         THEN InteractionFails("SelectUsers")
         ELSE /\ users' = values
              /\ needs_to_be_set' =
                   update_set_fields(needs_to_be_set, selected_forum,
                                     selected_thread, selected_channel)
              /\ last' = Handled("SelectUsers", None, "OkNone")
              /\ UNCHANGED <<destination, selected_users, thread_name,
                             selected_forum, selected_thread, selected_channel,
                             all_messages, pc, move_options, relayVars, result,
                             worldVars, dialog_msg>>
    /\ UNCHANGED envVars

\* Faulty variant: a destination change clears every selection and the name.
DestinationClearsSelections ==
    /\ Rendered("Destination")
    /\ \E defer_ok \in BOOLEAN, edit_ok \in BOOLEAN,
          d \in DestinationOptions \cup {"Unknown"} :
         IF can_defer("Destination") /\ ~defer_ok
         THEN InteractionFails("Destination")
         ELSE IF d = "Unknown"
         THEN /\ last' = Handled("Destination", d, "OkNone")
              /\ UNCHANGED <<dialogVars, all_messages, pc, move_options,
                             relayVars, result, worldVars, dialog_msg>>
         ELSE /\ destination' = d
              /\ selected_thread' = None
              /\ selected_channel' = None
              /\ selected_forum' = None
              /\ thread_name' = "Moved conversation"
              /\ needs_to_be_set' = switch_needs(d, None, None)
              /\ last' = Handled("Destination", d, IF edit_ok THEN "OkNone" ELSE "Err")
              /\ pc' = IF edit_ok THEN pc ELSE "done"
              /\ result' = IF edit_ok THEN result ELSE "err"
              /\ UNCHANGED <<users, selected_users, all_messages, move_options,
                             relayVars, worldVars, dialog_msg>>
    /\ UNCHANGED envVars

\* A destination name that MoveDestinationOption::from_name does not know
\* returns Ok(None) before anything is changed.
Destination ==
    /\ Rendered("Destination")
    /\ \E defer_ok \in BOOLEAN, edit_ok \in BOOLEAN,
          d \in DestinationOptions \cup {"Unknown"} :
         IF can_defer("Destination") /\ ~defer_ok
         THEN InteractionFails("Destination")
         ELSE IF d = "Unknown"
         THEN /\ last' = Handled("Destination", d, "OkNone")
              /\ UNCHANGED <<dialogVars, all_messages, pc, move_options,
                             relayVars, result, worldVars, dialog_msg>>
         ELSE /\ destination' = d
              /\ selected_thread' = None
              /\ IF edit_ok
                 THEN /\ needs_to_be_set' =
                           update_set_fields(
                               switch_needs(d, selected_forum, selected_channel),
                               selected_forum, None, selected_channel)
                      /\ last' = Handled("Destination", d, "OkNone")
                      /\ UNCHANGED <<pc, result>>
                 ELSE /\ needs_to_be_set' =
                           switch_needs(d, selected_forum, selected_channel)
                      /\ last' = Handled("Destination", d, "Err")
                      /\ pc' = "done"
                      /\ result' = "err"
              /\ UNCHANGED <<users, selected_users, thread_name, selected_forum,
                             selected_channel, all_messages, move_options,
                             relayVars, worldVars, dialog_msg>>
    /\ UNCHANGED envVars

Forum ==
    /\ Rendered("Forum")
    /\ \E defer_ok \in BOOLEAN, x \in Forums :
         IF can_defer("Forum") /\ ~defer_ok
         THEN InteractionFails("Forum")
         ELSE /\ selected_forum' = x
              /\ needs_to_be_set' =
                   update_set_fields(needs_to_be_set, x, selected_thread,
                                     selected_channel)
              /\ last' = Handled("Forum", x, "OkNone")
              /\ UNCHANGED <<destination, users, selected_users, thread_name,
                             selected_thread, selected_channel, all_messages,
                             pc, move_options, relayVars, result, worldVars,
                             dialog_msg>>
    /\ UNCHANGED envVars

Thread ==
    /\ Rendered("Thread")
    /\ \E defer_ok \in BOOLEAN, x \in Threads :
         IF can_defer("Thread") /\ ~defer_ok
         THEN InteractionFails("Thread")
         ELSE /\ selected_thread' = x
              /\ needs_to_be_set' =
                   update_set_fields(needs_to_be_set, selected_forum, x,
                                     selected_channel)
              /\ last' = Handled("Thread", x, "OkNone")
              /\ UNCHANGED <<destination, users, selected_users, thread_name,
                             selected_forum, selected_channel, all_messages,
                             pc, move_options, relayVars, result, worldVars,
                             dialog_msg>>
    /\ UNCHANGED envVars

Channel ==
    /\ Rendered("Channel")
    /\ \E defer_ok \in BOOLEAN, x \in Channels :
         IF can_defer("Channel") /\ ~defer_ok
         THEN InteractionFails("Channel")
         ELSE /\ selected_channel' = x
              /\ needs_to_be_set' =
                   update_set_fields(needs_to_be_set, selected_forum,
                                     selected_thread, x)
              /\ last' = Handled("Channel", x, "OkNone")
              /\ UNCHANGED <<destination, users, selected_users, thread_name,
                             selected_forum, selected_thread, all_messages,
                             pc, move_options, relayVars, result, worldVars,
                             dialog_msg>>
    /\ UNCHANGED envVars

\* Not deferred (can_defer is false): the modal is submitted with a name,
\* dismissed (None), or fails ("Err").
ChangeNameButton ==
    /\ Rendered("ChangeNameButton")
    /\ \E input \in Names \cup {None, "Err"} :
         IF input = "Err"
         THEN /\ last' = Handled("ChangeNameButton", None, "Err")
              /\ pc' = "done"
              /\ result' = "err"
              /\ UNCHANGED <<dialogVars, all_messages, move_options,
                             relayVars, worldVars, dialog_msg>>
         ELSE /\ thread_name' = IF input = None THEN thread_name ELSE input
              /\ needs_to_be_set' =
                   update_set_fields(needs_to_be_set, selected_forum,
                                     selected_thread, selected_channel)
              /\ last' = Handled("ChangeNameButton", input, "OkNone")
              /\ UNCHANGED <<destination, users, selected_users,
                             selected_forum, selected_thread, selected_channel,
                             all_messages, pc, move_options, relayVars, result,
                             worldVars, dialog_msg>>
    /\ UNCHANGED envVars

ExecuteButton ==
    /\ Rendered("ExecuteButton")
    /\ \E defer_ok \in BOOLEAN, to_channel \in ToChannelOutcomes :
         IF can_defer("ExecuteButton") /\ ~defer_ok
         THEN InteractionFails("ExecuteButton")
         ELSE LET r == build_move_options(needs_to_be_set, destination,
                           selected_channel, selected_thread, selected_forum,
                           thread_name, to_channel)
              IN  /\ last' = Handled("ExecuteButton", None, r.ret)
                  /\ move_options' = r.opts
                  /\ pc' = CASE r.ret = "OkSome" -> "delete_dialog"
                             [] r.ret = "Err" -> "done"
                             [] OTHER -> pc
                  /\ result' = IF r.ret = "Err" THEN "err" ELSE result
                  /\ UNCHANGED <<dialogVars, all_messages, relayVars,
                                 worldVars, dialog_msg>>
    /\ UNCHANGED envVars

\* The interaction stream ends: break None.
Timeout ==
    /\ pc = "dialog"
    /\ pc' = "delete_dialog"
    /\ last' = NoInteraction
    /\ UNCHANGED <<dialogVars, all_messages, move_options, relayVars, result,
                   worldVars, dialog_msg>>
    /\ UNCHANGED envVars

----------------------------------------------------------------------------
\* move_messages after the dialog

\* Faulty variant: a cancelled dialog returns before its message is deleted.
DeleteDialogSkippedOnCancel ==
    /\ pc = "delete_dialog"
    /\ \E delete_ok \in BOOLEAN :
         IF move_options = NoOptions
         THEN pc' = "done" /\ result' = "ok" /\ UNCHANGED dialog_msg
         ELSE IF ~delete_ok
         THEN pc' = "done" /\ result' = "err" /\ dialog_msg' = "delete_failed"
         ELSE pc' = "resolve" /\ dialog_msg' = "deleted" /\ UNCHANGED result
    /\ UNCHANGED <<dialogVars, all_messages, last, move_options, relayVars,
                   worldVars>>
    /\ UNCHANGED envVars

\* options_handle.delete, then `let Some(move_options) = move_options else
\* { return Ok(()) }`.  A failed deletion leaves the message on screen.
DeleteDialog ==
    /\ pc = "delete_dialog"
    /\ \E delete_ok \in BOOLEAN :
         IF ~delete_ok
         THEN /\ pc' = "done"
              /\ result' = "err"
              /\ dialog_msg' = "delete_failed"
         ELSE /\ dialog_msg' = "deleted"
              /\ IF move_options = NoOptions
                 THEN pc' = "done" /\ result' = "ok"
                 ELSE pc' = "resolve" /\ UNCHANGED result
    /\ UNCHANGED <<dialogVars, all_messages, last, move_options, relayVars,
                   worldVars>>
    /\ UNCHANGED envVars

\* MoveOptions::get_or_create_channel.  create_ok is the outcome of
\* create_thread / create_thread_from_message / create_forum_post, attach_ok
\* that of the attachment downloads that seed a forum post, which come first.
get_or_create_channel(opts, ctx_channel, attach_ok, create_ok) ==
    CASE opts.kind = "Channel" ->
           [ret |-> "Ok",
            dest |-> [kind |-> "Channel", channel |-> opts.channel_id,
                      thread |-> None, created_from_first_message |-> FALSE,
                      delete_on_fail |-> FALSE]]
      [] opts.kind = "ExistingThread" ->
           [ret |-> "Ok",
            dest |-> [kind |-> "Thread", channel |-> opts.channel_id,
                      thread |-> opts.thread_id,
                      created_from_first_message |-> FALSE,
                      delete_on_fail |-> FALSE]]
      [] opts.kind = "NewThread" ->
           IF ~create_ok THEN [ret |-> "Err", dest |-> NoDestination]
           ELSE [ret |-> "Ok",
                 dest |-> [kind |-> "Thread", channel |-> opts.channel_id,
                           thread |-> NewThreadId,
                           created_from_first_message |->
                               (opts.channel_id = ctx_channel),
                           delete_on_fail |-> TRUE]]
      [] opts.kind = "NewForumPost" ->
           IF ~attach_ok \/ ~create_ok
           THEN [ret |-> "Err", dest |-> NoDestination]
           ELSE [ret |-> "Ok",
                 dest |-> [kind |-> "Thread", channel |-> opts.channel_id,
                           thread |-> NewThreadId,
                           created_from_first_message |-> TRUE,
                           delete_on_fail |-> TRUE]]

\* The thread or forum post the destination names, as the platform holds it.
thread_state_of(d) ==
    CASE d.kind = "Channel" -> "none"
      [] d.delete_on_fail -> "created"
      [] OTHER -> "preexisting"

Resolve ==
    /\ pc = "resolve"
    /\ \E attach_ok \in BOOLEAN, create_ok \in BOOLEAN :
         LET r == get_or_create_channel(move_options, CtxChannel, attach_ok,
                                        create_ok)
         IN  /\ IF r.ret = "Err"
                THEN /\ pc' = "done"
                     /\ result' = "err"
                     /\ UNCHANGED <<dest, thread_state>>
                ELSE /\ dest' = r.dest
                     /\ thread_state' = thread_state_of(r.dest)
                     /\ pc' = "webhook"
                     /\ UNCHANGED result
             /\ failed_attachments' =
                   IF move_options.kind = "NewForumPost" /\ ~attach_ok
                   THEN {all_messages[1].id} ELSE failed_attachments
    /\ UNCHANGED <<dialogVars, all_messages, last, move_options, idx,
                   relayed_messages, abort_relaying, copies, deleted_originals,
                   webhook, dialog_msg, failed_deletes, reply>>
    /\ UNCHANGED other

\* destination.channel().create_webhook(..).await?
CreateWebhook ==
    /\ pc = "webhook"
    /\ \E create_ok \in BOOLEAN :
         IF create_ok
         THEN webhook' = "created" /\ pc' = "relay" /\ UNCHANGED result
         ELSE pc' = "done" /\ result' = "err" /\ UNCHANGED webhook
    /\ UNCHANGED <<dialogVars, all_messages, last, move_options, relayVars,
                   copies, deleted_originals, thread_state, dialog_msg,
                   failed_deletes, reply>>
    /\ UNCHANGED envVars

\* Faulty variant: the flag read is the one that marks a created destination.
skip_first_message_delete_flag(d) ==
    IF d.kind = "Channel" THEN FALSE ELSE d.delete_on_fail

\* MoveDestination::skip_first_message
skip_first_message(d) ==
    IF d.kind = "Channel" THEN FALSE ELSE d.created_from_first_message

\* Faulty variant: the offset is not applied.
filtered_messages_no_skip(msgs, selected, offset) ==
    SelectSeq(msgs, LAMBDA m : m.author \in selected)

\* all_messages.into_iter().filter(selected_users.contains(author)).skip(offset)
filtered_messages(msgs, selected, offset) ==
    LET kept == SelectSeq(msgs, LAMBDA m : m.author \in selected)
    IN  SubSeq(kept, offset + 1, Len(kept))

Filtered ==
    filtered_messages(all_messages, selected_users,
                      IF skip_first_message(dest) THEN 1 ELSE 0)

\* webhook.execute: Ok(Some(msg)), Ok(None) or Err.  With wait = true the
\* platform answers Ok(None) for no post it has stored.
PostOutcomes == {"Some", "None", "Err"}

\* Faulty variant: a created destination is not deleted.
rollback_entry_messages_only(d) == "rollback_msgs"

\* Faulty variant: every thread destination is deleted, created or not.
rollback_entry_any_thread(d) ==
    IF d.kind = "Thread" THEN "rollback_thread" ELSE "rollback_msgs"

\* `if abort_relaying`: a destination with delete_on_fail is deleted first.
rollback_entry(d) ==
    IF d.kind = "Thread" /\ d.delete_on_fail THEN "rollback_thread"
    ELSE "rollback_msgs"

\* Faulty variant: the loop goes on to the next message after a failed post.
PostContinuesAfterFailure ==
    /\ pc = "relay"
    /\ idx < Len(Filtered)
    /\ \E outcome \in PostOutcomes :
         IF outcome = "Some"
         THEN /\ relayed_messages' = Append(relayed_messages, Filtered[idx + 1].id)
              /\ copies' = Append(copies, Filtered[idx + 1].id)
              /\ UNCHANGED abort_relaying
         ELSE /\ abort_relaying' = TRUE
              /\ UNCHANGED <<relayed_messages, copies>>
    /\ idx' = idx + 1
    /\ UNCHANGED <<dialogVars, all_messages, pc, last, move_options, dest,
                   result, deleted_originals, thread_state, webhook,
                   dialog_msg, failed_deletes, reply>>
    /\ UNCHANGED envVars

\* Faulty variant: each original is deleted as soon as its copy is posted.
PostDeletesOriginal ==
    /\ pc = "relay"
    /\ idx < Len(Filtered)
    /\ \E outcome \in PostOutcomes :
         IF outcome = "Some"
         THEN /\ relayed_messages' = Append(relayed_messages, Filtered[idx + 1].id)
              /\ copies' = Append(copies, Filtered[idx + 1].id)
              /\ deleted_originals' = deleted_originals \cup {Filtered[idx + 1].id}
              /\ idx' = idx + 1
              /\ UNCHANGED <<pc, abort_relaying>>
         ELSE /\ abort_relaying' = TRUE
              /\ idx' = 0
              /\ pc' = rollback_entry(dest)
              /\ UNCHANGED <<relayed_messages, copies, deleted_originals>>
    /\ UNCHANGED <<dialogVars, all_messages, last, move_options, dest, result,
                   thread_state, webhook, dialog_msg, failed_deletes, reply>>
    /\ UNCHANGED envVars

\* Faulty variant: an attachment that cannot be fetched aborts the relay.
PostAbortsOnAttachmentFailure ==
    /\ pc = "relay"
    /\ idx < Len(Filtered)
    /\ \E attach_ok \in BOOLEAN, outcome \in PostOutcomes :
         IF attach_ok /\ outcome = "Some"
         THEN /\ relayed_messages' = Append(relayed_messages, Filtered[idx + 1].id)
              /\ copies' = Append(copies, Filtered[idx + 1].id)
              /\ idx' = idx + 1
              /\ UNCHANGED <<pc, abort_relaying, failed_attachments>>
         ELSE /\ abort_relaying' = TRUE
              /\ idx' = 0
              /\ pc' = rollback_entry(dest)
              /\ failed_attachments' =
                    IF attach_ok THEN failed_attachments
                    ELSE failed_attachments \cup {Filtered[idx + 1].id}
              /\ UNCHANGED <<relayed_messages, copies>>
    /\ UNCHANGED <<dialogVars, all_messages, last, move_options, dest, result,
                   deleted_originals, thread_state, webhook, dialog_msg,
                   failed_deletes, reply, other>>

\* One iteration of the posting loop.  An attachment that cannot be fetched
\* is logged and left out of the copy (attach_ok false); the post goes on.
Post ==
    /\ pc = "relay"
    /\ idx < Len(Filtered)
    /\ \E attach_ok \in BOOLEAN, outcome \in PostOutcomes :
         IF outcome = "Some"
         THEN /\ relayed_messages' = Append(relayed_messages, Filtered[idx + 1].id)
              /\ copies' = Append(copies, Filtered[idx + 1].id)
              /\ failed_attachments' =
                    IF attach_ok THEN failed_attachments
                    ELSE failed_attachments \cup {Filtered[idx + 1].id}
              /\ idx' = idx + 1
              /\ UNCHANGED <<pc, abort_relaying>>
         ELSE /\ abort_relaying' = TRUE
              /\ idx' = 0
              /\ pc' = rollback_entry(dest)
              /\ UNCHANGED <<relayed_messages, copies, failed_attachments>>
    /\ UNCHANGED <<dialogVars, all_messages, last, move_options, dest, result,
                   deleted_originals, thread_state, webhook, dialog_msg,
                   failed_deletes, reply, other>>

\* The posting loop ends with abort_relaying false.
RelayComplete ==
    /\ pc = "relay"
    /\ idx = Len(Filtered)
    /\ pc' = "delete_originals"
    /\ idx' = 0
    /\ UNCHANGED <<dialogVars, all_messages, last, move_options, dest,
                   relayed_messages, abort_relaying, result, worldVars,
                   dialog_msg>>
    /\ UNCHANGED envVars

\* Faulty variant: after the thread is deleted the rollback goes on to the
\* individual copies.
RollbackThreadFallsThrough ==
    /\ pc = "rollback_thread"
    /\ \E delete_ok \in BOOLEAN :
         IF delete_ok
         THEN thread_state' = "deleted" /\ copies' = <<>>
         ELSE thread_state' = "delete_failed" /\ UNCHANGED copies
    /\ pc' = "rollback_msgs"
    /\ UNCHANGED <<dialogVars, all_messages, last, move_options, relayVars,
                   result, deleted_originals, webhook, dialog_msg,
                   failed_deletes, reply>>
    /\ UNCHANGED envVars

\* thread.delete on a destination with delete_on_fail.
RollbackThread ==
    /\ pc = "rollback_thread"
    /\ \E delete_ok \in BOOLEAN :
         IF delete_ok
         THEN /\ thread_state' = "deleted"
              /\ copies' = <<>>
              /\ pc' = "done"
              /\ result' = "err"
         ELSE /\ thread_state' = "delete_failed"
              /\ pc' = "rollback_msgs"
              /\ UNCHANGED <<copies, result>>
    /\ UNCHANGED <<dialogVars, all_messages, last, move_options, relayVars,
                   deleted_originals, webhook, dialog_msg, failed_deletes,
                   reply>>
    /\ UNCHANGED envVars

\* The destination once the copy of message m is deleted.
remove_copy(cs, m) == SelectSeq(cs, LAMBDA c : c # m)

\* Faulty variant: the first failed deletion ends the rollback.
RollbackMessageStopsAtFailure ==
    /\ pc = "rollback_msgs"
    /\ idx < Len(relayed_messages)
    /\ \E delete_ok \in BOOLEAN :
         IF delete_ok
         THEN /\ copies' = remove_copy(copies, relayed_messages[idx + 1])
              /\ idx' = idx + 1
              /\ UNCHANGED <<failed_deletes, pc, result>>
         ELSE /\ failed_deletes' = failed_deletes \cup {relayed_messages[idx + 1]}
              /\ pc' = "done"
              /\ result' = "err"
              /\ UNCHANGED <<copies, idx>>
    /\ UNCHANGED <<dialogVars, all_messages, last, move_options, dest,
                   relayed_messages, abort_relaying, deleted_originals,
                   thread_state, webhook, dialog_msg, reply>>
    /\ UNCHANGED envVars

\* for msg in relayed_messages { msg.delete }: a failure is logged.
RollbackMessage ==
    /\ pc = "rollback_msgs"
    /\ idx < Len(relayed_messages)
    /\ \E delete_ok \in BOOLEAN :
         IF delete_ok
         THEN /\ copies' = remove_copy(copies, relayed_messages[idx + 1])
              /\ UNCHANGED failed_deletes
         ELSE /\ failed_deletes' = failed_deletes \cup {relayed_messages[idx + 1]}
              /\ UNCHANGED copies
    /\ idx' = idx + 1
    /\ UNCHANGED <<dialogVars, all_messages, pc, last, move_options, dest,
                   relayed_messages, abort_relaying, result, deleted_originals,
                   thread_state, webhook, dialog_msg, reply>>
    /\ UNCHANGED envVars

\* Faulty variant: the rollback does not return and goes on to the originals.
RollbackDoneFallsThrough ==
    /\ pc = "rollback_msgs"
    /\ idx = Len(relayed_messages)
    /\ pc' = "delete_originals"
    /\ idx' = 0
    /\ UNCHANGED <<dialogVars, all_messages, last, move_options, dest,
                   relayed_messages, abort_relaying, result, worldVars,
                   dialog_msg>>
    /\ UNCHANGED envVars

\* return Err(anyhow!("failed to move messages"))
RollbackDone ==
    /\ pc = "rollback_msgs"
    /\ idx = Len(relayed_messages)
    /\ pc' = "done"
    /\ result' = "err"
    /\ UNCHANGED <<dialogVars, all_messages, last, move_options, relayVars,
                   worldVars, dialog_msg>>
    /\ UNCHANGED envVars

\* Faulty variant: a failed deletion of an original undoes the relay.
DeleteOriginalRollsBack ==
    /\ pc = "delete_originals"
    /\ idx < Len(Filtered)
    /\ \E delete_ok \in BOOLEAN :
         IF delete_ok
         THEN /\ deleted_originals' = deleted_originals \cup {Filtered[idx + 1].id}
              /\ idx' = idx + 1
              /\ UNCHANGED pc
         ELSE /\ pc' = rollback_entry(dest)
              /\ idx' = 0
              /\ UNCHANGED deleted_originals
    /\ UNCHANGED <<dialogVars, all_messages, last, move_options, dest,
                   relayed_messages, abort_relaying, result, copies,
                   thread_state, webhook, dialog_msg, failed_deletes, reply>>
    /\ UNCHANGED envVars

\* Faulty variant: a failed deletion of an original is passed over and the
\* loop goes on.
DeleteOriginalContinues ==
    /\ pc = "delete_originals"
    /\ idx < Len(Filtered)
    /\ \E delete_ok \in BOOLEAN :
         IF delete_ok
         THEN deleted_originals' = deleted_originals \cup {Filtered[idx + 1].id}
         ELSE UNCHANGED deleted_originals
    /\ idx' = idx + 1
    /\ UNCHANGED <<dialogVars, all_messages, pc, last, move_options, dest,
                   relayed_messages, abort_relaying, result, copies,
                   thread_state, webhook, dialog_msg, failed_deletes, reply>>
    /\ UNCHANGED envVars

\* Faulty variant: an original that is already gone is passed over.
DeleteOriginalSkipsGone ==
    /\ pc = "delete_originals"
    /\ idx < Len(Filtered)
    /\ \E delete_ok \in BOOLEAN :
         IF Filtered[idx + 1].id \in other.deleted_originals
         THEN /\ idx' = idx + 1
              /\ UNCHANGED <<pc, result, deleted_originals>>
         ELSE IF delete_ok
         THEN /\ deleted_originals' = deleted_originals \cup {Filtered[idx + 1].id}
              /\ idx' = idx + 1
              /\ UNCHANGED <<pc, result>>
         ELSE /\ pc' = "done"
              /\ result' = "err"
              /\ UNCHANGED <<deleted_originals, idx>>
    /\ UNCHANGED <<dialogVars, all_messages, last, move_options, dest,
                   relayed_messages, abort_relaying, copies, thread_state,
                   webhook, dialog_msg, failed_deletes, reply>>
    /\ UNCHANGED envVars

\* for msg in filtered_messages { msg.delete }: a failure is returned.  The
\* platform cannot delete a message the other invocation has deleted.
DeleteOriginal ==
    /\ pc = "delete_originals"
    /\ idx < Len(Filtered)
    /\ \E delete_ok \in BOOLEAN :
         IF delete_ok /\ Filtered[idx + 1].id \notin other.deleted_originals
         THEN /\ deleted_originals' = deleted_originals \cup {Filtered[idx + 1].id}
              /\ idx' = idx + 1
              /\ UNCHANGED <<pc, result>>
         ELSE /\ pc' = "done"
              /\ result' = "err"
              /\ UNCHANGED <<deleted_originals, idx>>
    /\ UNCHANGED <<dialogVars, all_messages, last, move_options, dest,
                   relayed_messages, abort_relaying, copies, thread_state,
                   webhook, dialog_msg, failed_deletes, reply>>
    /\ UNCHANGED envVars

\* Faulty variant: the webhook is deleted once the summary is sent.
SayDeletesWebhook ==
    /\ pc = "delete_originals"
    /\ idx = Len(Filtered)
    /\ \E say_ok \in BOOLEAN :
         IF say_ok
         THEN /\ reply' = IF dest.thread # None THEN dest.thread
                          ELSE dest.channel
              /\ result' = "ok"
              /\ webhook' = "deleted"
         ELSE /\ result' = "err"
              /\ UNCHANGED <<reply, webhook>>
    /\ pc' = "done"
    /\ UNCHANGED <<dialogVars, all_messages, last, move_options, relayVars,
                   copies, deleted_originals, thread_state, dialog_msg,
                   failed_deletes>>
    /\ UNCHANGED envVars

\* ctx.say("Conversation moved from .. to ..").await?
Say ==
    /\ pc = "delete_originals"
    /\ idx = Len(Filtered)
    /\ \E say_ok \in BOOLEAN :
         IF say_ok
         THEN /\ reply' = IF dest.thread # None THEN dest.thread
                          ELSE dest.channel
              /\ result' = "ok"
         ELSE /\ result' = "err"
              /\ UNCHANGED reply
    /\ pc' = "done"
    /\ UNCHANGED <<dialogVars, all_messages, last, move_options, relayVars,
                   copies, deleted_originals, thread_state, webhook,
                   dialog_msg, failed_deletes>>
    /\ UNCHANGED envVars

----------------------------------------------------------------------------
\* The state once MoveOptionsDialog::create has rendered the dialog.  The
\* forum is preselected when the guild has exactly one.
Init ==
    /\ \E run \in MessageRuns :
         all_messages = collect_messages(messages_after(run), start_msg_of(run))
    /\ destination = "Channel"
    /\ users = authors(all_messages)
    /\ selected_users = authors(all_messages)
    /\ thread_name = "Moved conversation"
    /\ selected_forum \in {None, "f1"}
    /\ selected_thread = None
    /\ selected_channel = None
    /\ needs_to_be_set = switch_needs("Channel", selected_forum, None)
    /\ pc = "dialog"
    /\ last = NoInteraction
    /\ move_options = NoOptions
    /\ dest = NoDestination
    /\ idx = 0
    /\ relayed_messages = <<>>
    /\ abort_relaying = FALSE
    /\ result = "running"
    /\ copies = <<>>
    /\ deleted_originals = {}
    /\ thread_state = "none"
    /\ webhook = "none"
    /\ dialog_msg = "shown"
    /\ failed_deletes = {}
    /\ reply = None
    /\ failed_attachments = {}
    /\ other = NoOther

Next ==
    \/ UnknownComponent
    \/ SelectUsers
    \/ Destination
    \/ Forum
    \/ Thread
    \/ Channel
    \/ ChangeNameButton
    \/ ExecuteButton
    \/ Timeout
    \/ DeleteDialog
    \/ Resolve
    \/ CreateWebhook
    \/ Post
    \/ RelayComplete
    \/ RollbackThread
    \/ RollbackMessage
    \/ RollbackDone
    \/ DeleteOriginal
    \/ Say

Spec == Init /\ [][Next]_vars

\* The steps move_messages takes by itself once the dialog loop is left: each
\* awaits one platform call, and the call returns.
WorkflowStep ==
    \/ DeleteDialog
    \/ Resolve
    \/ CreateWebhook
    \/ Post
    \/ RelayComplete
    \/ RollbackThread
    \/ RollbackMessage
    \/ RollbackDone
    \/ DeleteOriginal
    \/ Say

\* await_component_interactions(ctx).stream() is built without a timeout, so
\* nothing makes interaction_stream.next() return: neither an interaction nor
\* the end of the stream is forced to happen.  Only the workflow's own steps
\* are fair.
SpecLive == Init /\ [][Next]_vars /\ WF_vars(WorkflowStep)

----------------------------------------------------------------------------
\* The relay as a function of its inputs: any run, any participant filter,
\* any resolved destination, from the first post on.

ResolvableOptions ==
    {[kind |-> "Channel", channel_id |-> c, thread_id |-> None, name |-> None] :
        c \in Channels}
    \cup {[kind |-> "NewThread", channel_id |-> c, thread_id |-> None,
           name |-> "Moved conversation"] : c \in Channels}
    \cup {[kind |-> "ExistingThread", channel_id |-> c, thread_id |-> t,
           name |-> None] : c \in Channels, t \in Threads}
    \cup {[kind |-> "NewForumPost", channel_id |-> f, thread_id |-> None,
           name |-> "Moved conversation"] : f \in Forums}

RelayStart ==
    /\ \E run \in MessageRuns :
         all_messages = collect_messages(messages_after(run), start_msg_of(run))
    /\ selected_users \in SUBSET Users
    /\ users = authors(all_messages)
    /\ move_options \in ResolvableOptions
    /\ dest = get_or_create_channel(move_options, CtxChannel, TRUE, TRUE).dest
    /\ thread_state = thread_state_of(dest)
    /\ destination = move_options.kind
    /\ thread_name = "Moved conversation"
    /\ selected_forum =
         IF move_options.kind = "NewForumPost" THEN move_options.channel_id
         ELSE None
    /\ selected_thread = move_options.thread_id
    /\ selected_channel =
         IF move_options.kind \in {"Channel", "NewThread"}
         THEN move_options.channel_id ELSE None
    /\ needs_to_be_set = {}
    /\ pc = "relay"
    /\ last = Handled("ExecuteButton", None, "OkSome")
    /\ idx = 0
    /\ relayed_messages = <<>>
    /\ abort_relaying = FALSE
    /\ result = "running"
    /\ copies = <<>>
    /\ deleted_originals = {}
    /\ webhook = "created"
    /\ dialog_msg = "deleted"
    /\ failed_deletes = {}
    /\ reply = None
    /\ failed_attachments = {}

InitRelay == RelayStart /\ other = NoOther

NextRelay ==
    \/ Post
    \/ RelayComplete
    \/ RollbackThread
    \/ RollbackMessage
    \/ RollbackDone
    \/ DeleteOriginal
    \/ Say

SpecRelay == InitRelay /\ [][NextRelay]_vars

----------------------------------------------------------------------------
\* Two invocations of move_messages over the same run.  Nothing in
\* move_messages refers to another invocation: each holds the messages it
\* fetched at its start and meets the other only through the platform.  The
\* second invocation relays every message of the run into an existing
\* channel of its own; its steps are those of the first, on its own locals.

OtherStart ==
    [NoOther EXCEPT !.pc = "relay", !.result = "running"]

\* One iteration of the posting loop of the second invocation.
OtherPost ==
    /\ other.pc = "relay"
    /\ other.idx < Len(all_messages)
    /\ \E outcome \in PostOutcomes :
         other' =
           IF outcome = "Some"
           THEN [other EXCEPT
                   !.relayed_messages = Append(@, all_messages[other.idx + 1].id),
                   !.copies = Append(@, all_messages[other.idx + 1].id),
                   !.idx = @ + 1]
           ELSE [other EXCEPT !.abort_relaying = TRUE, !.idx = 0,
                              !.pc = "rollback_msgs"]
    /\ UNCHANGED <<dialogVars, all_messages, pc, last, move_options, relayVars,
                   result, worldVars, dialog_msg, failed_attachments>>

OtherRelayComplete ==
    /\ other.pc = "relay"
    /\ other.idx = Len(all_messages)
    /\ other' = [other EXCEPT !.pc = "delete_originals", !.idx = 0]
    /\ UNCHANGED <<dialogVars, all_messages, pc, last, move_options, relayVars,
                   result, worldVars, dialog_msg, failed_attachments>>

OtherRollbackMessage ==
    /\ other.pc = "rollback_msgs"
    /\ other.idx < Len(other.relayed_messages)
    /\ \E delete_ok \in BOOLEAN :
         other' =
           [other EXCEPT
              !.copies = IF delete_ok
                         THEN remove_copy(@, other.relayed_messages[other.idx + 1])
                         ELSE @,
              !.idx = @ + 1]
    /\ UNCHANGED <<dialogVars, all_messages, pc, last, move_options, relayVars,
                   result, worldVars, dialog_msg, failed_attachments>>

OtherRollbackDone ==
    /\ other.pc = "rollback_msgs"
    /\ other.idx = Len(other.relayed_messages)
    /\ other' = [other EXCEPT !.pc = "done", !.result = "err"]
    /\ UNCHANGED <<dialogVars, all_messages, pc, last, move_options, relayVars,
                   result, worldVars, dialog_msg, failed_attachments>>

\* The platform cannot delete a message the first invocation has deleted.
OtherDeleteOriginal ==
    /\ other.pc = "delete_originals"
    /\ other.idx < Len(all_messages)
    /\ \E delete_ok \in BOOLEAN :
         other' =
           IF delete_ok /\ all_messages[other.idx + 1].id \notin deleted_originals
           THEN [other EXCEPT
                   !.deleted_originals = @ \cup {all_messages[other.idx + 1].id},
                   !.idx = @ + 1]
           ELSE [other EXCEPT !.pc = "done", !.result = "err"]
    /\ UNCHANGED <<dialogVars, all_messages, pc, last, move_options, relayVars,
                   result, worldVars, dialog_msg, failed_attachments>>

OtherSay ==
    /\ other.pc = "delete_originals"
    /\ other.idx = Len(all_messages)
    /\ \E say_ok \in BOOLEAN :
         other' = [other EXCEPT !.pc = "done",
                                !.result = IF say_ok THEN "ok" ELSE "err"]
    /\ UNCHANGED <<dialogVars, all_messages, pc, last, move_options, relayVars,
                   result, worldVars, dialog_msg, failed_attachments>>

\* Both invocations have resolved their destinations and start to relay.
\* The participant selection of the first is the one the dialog hands over:
\* every author of the run.
InitRace ==
    /\ RelayStart
    /\ selected_users = authors(all_messages)
    /\ other = OtherStart

NextRace ==
    \/ Post
    \/ RelayComplete
    \/ RollbackThread
    \/ RollbackMessage
    \/ RollbackDone
    \/ DeleteOriginal
    \/ Say
    \/ OtherPost
    \/ OtherRelayComplete
    \/ OtherRollbackMessage
    \/ OtherRollbackDone
    \/ OtherDeleteOriginal
    \/ OtherSay

SpecRace == InitRace /\ [][NextRace]_vars

----------------------------------------------------------------------------
\* Properties

AuthorOf(id) == (CHOOSE m \in Range(all_messages) : m.id = id).author

\* The elements of a set of message ids, oldest first.
Ascending(ids) ==
    SelectSeq([i \in 1..Len(all_messages) |-> i], LAMBDA i : i \in ids)

\* The ids of the source messages by a selected participant.
SelectedIds ==
    {m.id : m \in {x \in Range(all_messages) : x.author \in selected_users}}

\* The source messages to move: those by a selected participant, without
\* the invoking message when the destination was created from it.
SurvivingIds ==
    {i \in SelectedIds : ~(skip_first_message(dest) /\ i = 1)}

RelayStarted == webhook = "created"

\* C1 (as amended): when a proxy-post has failed, the workflow ends with the
\* deletion of a newly created destination attempted and with no relayed copy
\* left at the destination except the copies whose own rollback deletion
\* failed; none is left when the destination was deleted.
C1_RollbackLeavesOnlyFailedDeletes ==
    (pc = "done" /\ abort_relaying) =>
        /\ dest.delete_on_fail => thread_state \in {"deleted", "delete_failed"}
        /\ thread_state = "deleted" => copies = <<>>
        /\ Range(copies) = failed_deletes

\* C1 (original): when a proxy-post has failed, the workflow ends with zero
\* relayed copies at the destination and a newly created destination deleted
\* (deletion attempted).
C1_ZeroCopiesAfterFailedPost ==
    (pc = "done" /\ abort_relaying) =>
        /\ copies = <<>>
        /\ dest.delete_on_fail => thread_state \in {"deleted", "delete_failed"}

\* Two posts succeeded, the third failed, the deletion of the new thread
\* failed and both copies were then deleted one by one.
C1_Witness ==
    /\ pc = "done"
    /\ abort_relaying
    /\ Len(relayed_messages) = 2
    /\ thread_state = "delete_failed"
    /\ copies = <<>>

\* C2: once a proxy-post has failed, no source message is deleted and the
\* workflow does not report success: it ends reporting failure, without the
\* success summary.
C2_FailedPostKeepsSources ==
    abort_relaying =>
        /\ deleted_originals = {}
        /\ result # "ok"
        /\ reply = None
        /\ pc = "done" => result = "err"

\* The third post into a newly created thread failed and the thread was
\* deleted.
C2_Witness ==
    /\ pc = "done"
    /\ abort_relaying
    /\ Len(relayed_messages) = 2
    /\ dest.delete_on_fail
    /\ thread_state = "deleted"
    /\ result = "err"

\* C3: when the workflow reports success after a relay, the destination
\* holds exactly one copy of every surviving source message, in source
\* order, and every surviving original is deleted.
C3_SuccessMovesTranscript ==
    (pc = "done" /\ result = "ok" /\ RelayStarted) =>
        /\ copies = Ascending(SurvivingIds)
        /\ deleted_originals = SurvivingIds

\* A run of three moved into a thread created from the invoking message.
C3_Witness ==
    /\ pc = "done"
    /\ result = "ok"
    /\ skip_first_message(dest)
    /\ copies = <<2, 3>>
    /\ deleted_originals = {2, 3}

\* C4 (as amended): when the relay reports failure the destination holds no
\* duplicated or reordered copy; after a failed proxy-post it holds only the
\* copies whose rollback deletion failed, and after a failed deletion of an
\* original or a failed summary it holds the complete transcript.
C4_FailureLeavesNoBrokenTranscript ==
    (pc = "done" /\ result = "err" /\ RelayStarted) =>
        /\ \A i, j \in 1..Len(copies) : i < j => copies[i] < copies[j]
        /\ IF abort_relaying
           THEN /\ Range(copies) = failed_deletes
                /\ failed_deletes \subseteq Range(relayed_messages)
           ELSE copies = Ascending(SurvivingIds)

\* C4 (original): when the relay reports failure, for any cause, no relayed
\* copy of the invocation is left at the destination.
C4_NoCopiesOnFailure ==
    (pc = "done" /\ result = "err" /\ RelayStarted) => copies = <<>>

\* The deletion of the second original failed after three posts.
C4_Witness ==
    /\ pc = "done"
    /\ result = "err"
    /\ ~abort_relaying
    /\ Len(copies) = 3
    /\ Cardinality(deleted_originals) = 1

\* C5: for every run, filter and destination, the posts made so far are, in
\* order and without duplicates, the first of the selected source messages
\* in chronological order (after the skipped one); a post is issued only
\* when every earlier one has completed, and the loop ends normally only
\* when all of them are posted.
C5_PostsFollowSourceOrder ==
    LET source == Ascending(SelectedIds)
        off == IF skip_first_message(dest) THEN 1 ELSE 0
        n == Len(relayed_messages)
    IN  /\ off + n <= Len(source) \/ n = 0
        /\ \A k \in 1..n : relayed_messages[k] = source[off + k]
        /\ pc = "relay" => idx = n /\ copies = relayed_messages
        /\ (pc = "delete_originals" \/ (result = "ok" /\ RelayStarted))
           => off + n >= Len(source)

\* The filter dropped the message between two posted ones.
C5_Witness ==
    /\ selected_users = {"u1"}
    /\ relayed_messages = <<1, 3>>
    /\ AuthorOf(2) = "u2"
    /\ pc = "delete_originals"

\* C6: a relay posts and deletes only messages whose author is in the set
\* the last participant-filter event carried (kept in users; all authors
\* when there was no such event).
C6_OnlyFilteredParticipantsMoved ==
    \A id \in Range(relayed_messages) \cup deleted_originals :
        AuthorOf(id) \in users

\* C7: an acknowledged execute request while the required-set is non-empty
\* is a no-op: it returns no MoveOptions and no error, leaves the dialog
\* state unchanged and leaves the dialog waiting for interactions.
C7_BlockedExecuteIsNoOp ==
    [][(/\ pc = "dialog"
        /\ last'.comp = "ExecuteButton"
        /\ last'.deferred
        /\ needs_to_be_set # {})
       => /\ last'.ret = "OkNone"
          /\ move_options' = NoOptions
          /\ UNCHANGED dialogVars
          /\ pc' = "dialog"
          /\ result' = "running"]_vars

\* An execute request was just blocked by a non-empty required-set.
C7_Witness ==
    /\ pc = "dialog"
    /\ last = Handled("ExecuteButton", None, "OkNone")
    /\ needs_to_be_set # {}

\* The concrete selection of a required component.
Selected(c) ==
    CASE c = "Forum" -> selected_forum
      [] c = "Thread" -> selected_thread
      [] c = "Channel" -> selected_channel

\* C8: an acknowledged execute request while a required component of the
\* current destination has no selection blocks silently: no MoveOptions, no
\* error, the workflow goes on.
C8_MissingSelectionBlocksSilently ==
    (/\ last.comp = "ExecuteButton"
     /\ last.deferred
     /\ \E c \in needs_to_be_set_of(destination) : Selected(c) = None)
    => /\ last.ret = "OkNone"
       /\ pc = "dialog"
       /\ result = "running"

\* C9: after a destination-option-changed event to D the required-set is
\* exactly the declared required components of D and no thread is selected.
C9_SwitchResetsRequiredSet ==
    (/\ last.comp = "Destination"
     /\ last.deferred
     /\ last.value \in DestinationOptions)
    => /\ destination = last.value
       /\ needs_to_be_set = needs_to_be_set_of(last.value)
       /\ selected_thread = None

\* C10: after a forum / thread / channel chosen event carrying x, x is the
\* stored selection and the component is not in the required-set; between
\* destination changes the required-set only shrinks.
C10_ChoiceSatisfiesRequirement ==
    [][/\ (pc = "dialog" /\ last'.deferred
              /\ last'.comp \in {"Forum", "Thread", "Channel"})
          => /\ last'.comp = "Forum" => selected_forum' = last'.value
             /\ last'.comp = "Thread" => selected_thread' = last'.value
             /\ last'.comp = "Channel" => selected_channel' = last'.value
             /\ last'.comp \notin needs_to_be_set'
       /\ (pc = "dialog" /\ last'.comp # "Destination")
          => needs_to_be_set' \subseteq needs_to_be_set]_vars

\* The required components the registry declares for a destination option.
DeclaredRequired(d) ==
    CASE d \in {"Channel", "NewThread"} -> {"Channel"}
      [] d = "ExistingThread" -> {"Thread"}
      [] d = "NewForumPost" -> {"Forum"}

\* C11: the required-set is always a subset of the required components
\* declared for the current destination option, and it is empty whenever a
\* MoveOptions has been materialised.
C11_RequiredSetWithinRegistry ==
    /\ needs_to_be_set \subseteq DeclaredRequired(destination)
    /\ move_options # NoOptions => needs_to_be_set = {}

\* A MoveOptions for a new forum post was just materialised.
C11_Witness ==
    /\ pc = "delete_dialog"
    /\ last = Handled("ExecuteButton", None, "OkSome")
    /\ move_options.kind = "NewForumPost"
    /\ needs_to_be_set = {}

\* C12: on every way the workflow ends, the rendered dialog message has been
\* deleted (its deletion attempted).
C12_DialogAlwaysWithdrawn ==
    pc = "done" => dialog_msg \in {"deleted", "delete_failed"}

\* The interaction stream ended before any MoveOptions was produced.
TimedOut == pc # "dialog" /\ last = NoInteraction

\* C13 (as amended): when the interaction wait ends before any MoveOptions
\* was produced, no destination or proxy channel is created, no message is
\* posted or deleted and nothing is sent to the invoker; the workflow ends
\* without error when the dialog message was deleted, and with the error of
\* that deletion when it failed.
C13_TimeoutTouchesNothing ==
    TimedOut =>
        /\ move_options = NoOptions
        /\ dest = NoDestination
        /\ thread_state = "none"
        /\ webhook = "none"
        /\ relayed_messages = <<>>
        /\ copies = <<>>
        /\ deleted_originals = {}
        /\ reply = None
        /\ pc = "done" =>
              \/ dialog_msg = "deleted" /\ result = "ok"
              \/ dialog_msg = "delete_failed" /\ result = "err"

\* C13 (original): when the interaction wait ends before any MoveOptions was
\* produced, the dialog message is deleted, the invoker is told of the
\* cancellation, nothing is created and no message is posted or deleted.
C13_TimeoutReportsCancellation ==
    (TimedOut /\ pc = "done") =>
        /\ dialog_msg = "deleted"
        /\ reply = "cancelled"
        /\ dest = NoDestination
        /\ thread_state = "none"
        /\ webhook = "none"
        /\ copies = <<>>
        /\ deleted_originals = {}

\* The wait ended with no interaction ever received and the dialog message
\* was deleted.
C13_Witness ==
    /\ TimedOut
    /\ pc = "done"
    /\ dialog_msg = "deleted"
    /\ selected_channel = None
    /\ destination = "Channel"

\* C14: every invocation eventually ends, as Ready, Cancelled or an error:
\* when no interaction arrives the wait is ended by a timeout.
C14_WorkflowTerminates == <>(pc = "done")

\* The destination was resolved from the options the dialog handed over.
Resolved == dest # NoDestination

\* The options name a destination that resolving creates.
CreatesDestination == move_options.kind \in {"NewThread", "NewForumPost"}

\* C15 (as amended): the skip-first flag of a resolved destination is true
\* exactly for a NewThread whose parent is the invoking container and for a
\* NewForumPost; it is false for a channel, an existing thread and a NewThread
\* in another channel.
C15_SkipFirstIffSeeded ==
    Resolved =>
        (skip_first_message(dest) <=>
            \/ move_options.kind = "NewThread"
                   /\ move_options.channel_id = CtxChannel
            \/ move_options.kind = "NewForumPost")

\* C15 (original): the skip-first flag is true for a NewThread whose parent is
\* the invoking container, and false for every destination whose parent is
\* another container, a NewForumPost included.
C15_SkipFirstOnlyForMatchingThread ==
    Resolved =>
        /\ (move_options.kind = "NewThread"
                /\ move_options.channel_id = CtxChannel)
               => skip_first_message(dest)
        /\ move_options.channel_id # CtxChannel => ~skip_first_message(dest)

\* A new forum post was resolved and its first message is skipped.
C15_Witness ==
    /\ Resolved
    /\ move_options.kind = "NewForumPost"
    /\ skip_first_message(dest)
    /\ pc = "webhook"

\* C16: a resolved destination carries the delete-on-rollback flag exactly
\* when this invocation created it, and a thread that existed before the
\* invocation is never deleted.
C16_DeleteFlagIffCreated ==
    Resolved =>
        /\ dest.delete_on_fail <=> CreatesDestination
        /\ thread_state \in {"deleted", "delete_failed"} => CreatesDestination
        /\ move_options.kind = "ExistingThread" => thread_state = "preexisting"
        /\ move_options.kind = "Channel" => thread_state = "none"

\* A relay into an existing thread was rolled back and the thread is still
\* there.
C16_Witness ==
    /\ pc = "done"
    /\ abort_relaying
    /\ move_options.kind = "ExistingThread"
    /\ Len(relayed_messages) >= 1
    /\ copies = <<>>
    /\ thread_state = "preexisting"

\* The copies whose individual deletion was attempted during rollback.
AttemptedCopies ==
    (Range(relayed_messages) \ Range(copies)) \cup failed_deletes

\* C17: in a rollback the deletion of a created destination is attempted
\* first; once it succeeded no copy is deleted individually; copies are
\* deleted individually only when that deletion failed or the destination
\* existed before; a failed deletion does not stop the rollback, every
\* remaining copy is still attempted.
C17_RollbackOrder ==
    /\ pc = "rollback_msgs" =>
          /\ abort_relaying
          /\ dest.delete_on_fail => thread_state = "delete_failed"
          /\ thread_state # "deleted"
    /\ (abort_relaying /\ thread_state = "deleted") =>
          /\ pc = "done"
          /\ idx = 0
          /\ failed_deletes = {}
    /\ (pc = "done" /\ abort_relaying /\ thread_state # "deleted") =>
          /\ idx = Len(relayed_messages)
          /\ AttemptedCopies = Range(relayed_messages)
          /\ result = "err"

\* The created thread could not be deleted, the first copy could not be
\* deleted either, and the second copy was deleted all the same.
C17_Witness ==
    /\ pc = "done"
    /\ abort_relaying
    /\ thread_state = "delete_failed"
    /\ Len(relayed_messages) = 2
    /\ failed_deletes = {relayed_messages[1]}
    /\ copies = <<relayed_messages[1]>>

\* The workflow ended on a failed deletion of an original message.
OriginalDeleteFailed ==
    /\ pc = "done"
    /\ RelayStarted
    /\ ~abort_relaying
    /\ idx < Len(Filtered)

\* C18: when the deletion of an original fails after every copy was relayed,
\* the workflow reports the failure and undoes nothing: every copy stays at
\* the destination and the destination, even a created one, is not deleted.
C18_FailedOriginalDeleteKeepsRelay ==
    OriginalDeleteFailed =>
        /\ result = "err"
        /\ reply = None
        /\ Len(relayed_messages) = Len(Filtered)
        /\ copies = relayed_messages
        /\ failed_deletes = {}
        /\ thread_state = thread_state_of(dest)

\* Two copies were relayed into a created thread and the first original could
\* not be deleted.
C18_Witness ==
    /\ OriginalDeleteFailed
    /\ CreatesDestination
    /\ thread_state = "created"
    /\ Len(copies) = 2
    /\ deleted_originals = {}

\* C19: when the workflow fails after this invocation created a thread or a
\* forum post, the deletion of that destination was attempted before the
\* failure is reported.
C19_FailureRollsBackCreatedDestination ==
    (pc = "done" /\ result = "err" /\ Resolved /\ CreatesDestination) =>
        thread_state \in {"deleted", "delete_failed"}

\* The interaction carries an identifier that does not parse, or an
\* acknowledged destination selection that names no known option.
Unrecognised(l) ==
    \/ l.comp = "Unknown"
    \/ l.comp = "Destination" /\ l.deferred /\ l.value = "Unknown"

\* C20: an interaction with an unparseable identifier, or a destination
\* selection naming no known option, is ignored: it yields no MoveOptions and
\* no error and leaves the whole dialog state unchanged.
C20_UnrecognisedInteractionIgnored ==
    [][(pc = "dialog" /\ Unrecognised(last')) =>
          /\ last'.ret = "OkNone"
          /\ UNCHANGED <<dialogVars, move_options, pc, result, dialog_msg>>
          /\ UNCHANGED <<all_messages, relayVars, worldVars>>]_vars

\* An unparseable identifier arrived at a dialog that already holds a channel
\* selection and a changed thread name.
C20_Witness ==
    /\ pc = "dialog"
    /\ last.comp = "Unknown"
    /\ last.ret = "OkNone"
    /\ selected_channel = "c1"
    /\ thread_name = "Renamed"
    /\ result = "running"

\* The ids of the first n records of a sequence of messages.
IdsOfPrefix(msgs, n) == [i \in 1..n |-> msgs[i].id]

\* C21: after the first failed proxy-post no further post is attempted: the
\* posted copies are always a prefix of the surviving sequence, and once the
\* relay is aborted the posting loop is left for good.
C21_PostsArePrefixAndStopAtFailure ==
    RelayStarted =>
        /\ Len(relayed_messages) <= Len(Filtered)
        /\ relayed_messages = IdsOfPrefix(Filtered, Len(relayed_messages))
        /\ abort_relaying =>
              /\ pc \in {"rollback_thread", "rollback_msgs", "done"}
              /\ Len(relayed_messages) < Len(Filtered)

\* The second of three posts failed; the third was never attempted.
C21_Witness ==
    /\ abort_relaying
    /\ pc = "done"
    /\ Len(Filtered) = 3
    /\ Len(relayed_messages) = 1

\* A rollback deletion has been attempted.
RollbackDeletionDone ==
    \/ copies # relayed_messages
    \/ failed_deletes # {}
    \/ thread_state \in {"deleted", "delete_failed"}

\* C22: no deletion happens before the posting phase has finished: originals
\* are deleted only after every surviving message was posted, and rollback
\* deletions only after a failed post ended the posting loop.
C22_NoDeletionBeforePostsFinished ==
    /\ pc \in {"dialog", "delete_dialog", "resolve", "webhook", "relay"} =>
          deleted_originals = {} /\ ~RollbackDeletionDone
    /\ deleted_originals # {} =>
          /\ ~abort_relaying
          /\ pc \in {"delete_originals", "done"}
          /\ Len(relayed_messages) = Len(Filtered)
          /\ copies = relayed_messages
    /\ RollbackDeletionDone =>
          /\ abort_relaying
          /\ pc \in {"rollback_msgs", "done"}
          /\ deleted_originals = {}

\* Three copies were posted and the deletion of the originals has begun.
C22_Witness ==
    /\ pc = "delete_originals"
    /\ Len(relayed_messages) = 3
    /\ Cardinality(deleted_originals) = 1
    /\ copies = relayed_messages

\* The records after the leading one whose author is selected.
SelectedAfterLeading ==
    SelectSeq(Tail(all_messages), LAMBDA m : m.author \in selected_users)

selectionVars ==
    <<needs_to_be_set, destination, selected_forum, selected_thread,
      selected_channel>>

\* C24: a rename submission replaces the free-text name and a dismissed modal
\* leaves it; a participant-filter change replaces the selected participants
\* by the submitted values (the values the handler stored); neither changes
\* the required-set, the destination option or the selected ids.
C24_RenameAndFilterFrame ==
    [][pc = "dialog" =>
          /\ (last'.comp = "ChangeNameButton" /\ last'.ret = "OkNone") =>
                /\ thread_name' =
                       IF last'.value = None THEN thread_name ELSE last'.value
                /\ UNCHANGED selectionVars
          /\ (last'.comp = "SelectUsers" /\ last'.deferred) =>
                /\ selected_users' = users'
                /\ UNCHANGED selectionVars]_vars

\* C26: in every dialog state a required component of the current
\* destination that already has a selected value is not in the required-set,
\* so an acknowledged execute request with every required component selected
\* is not blocked.
C26_SelectedComponentNotRequired ==
    /\ pc = "dialog" =>
          \A c \in DeclaredRequired(destination) :
              Selected(c) # None => c \notin needs_to_be_set
    /\ (/\ last.comp = "ExecuteButton"
        /\ last.deferred
        /\ \A c \in DeclaredRequired(destination) : Selected(c) # None)
       => last.ret # "OkNone"

\* C27: a destination-option change sets the option and clears the selected
\* thread, and leaves the selected channel, the selected forum, the free-text
\* name and the participant lists unchanged.
C27_SwitchKeepsOtherSelections ==
    [][(/\ pc = "dialog"
        /\ last'.comp = "Destination"
        /\ last'.deferred
        /\ last'.value \in DestinationOptions)
       => /\ destination' = last'.value
          /\ selected_thread' = None
          /\ UNCHANGED <<selected_channel, selected_forum, thread_name, users,
                         selected_users>>]_vars

\* A channel chosen and a title renamed earlier are still there after the
\* switch to NewThread.
C27_Witness ==
    /\ pc = "dialog"
    /\ last = Handled("Destination", "NewThread", "OkNone")
    /\ destination = "NewThread"
    /\ selected_channel = "c1"
    /\ thread_name = "Renamed"

\* The ids of the originals the deletion loop has passed.
DeletedPrefix == {Filtered[i].id : i \in 1..idx}

\* C28: the deletion of the originals stops at the first failure: the
\* originals deleted so far are a prefix of the surviving sequence, no later
\* original is attempted, the workflow reports the error and sends no success
\* summary.
C28_OriginalDeletionStopsAtFailure ==
    /\ (RelayStarted /\ ~abort_relaying
            /\ pc \in {"delete_originals", "done"}) =>
          /\ idx <= Len(Filtered)
          /\ deleted_originals = DeletedPrefix
    /\ OriginalDeleteFailed =>
          /\ result = "err"
          /\ reply = None
          /\ Filtered[idx + 1].id \notin deleted_originals

\* The first original was deleted, the second could not be, the third was
\* never attempted.
C28_Witness ==
    /\ OriginalDeleteFailed
    /\ Len(Filtered) = 3
    /\ idx = 1
    /\ deleted_originals = {Filtered[1].id}

\* C29: the webhook is created once, after the destination was resolved and
\* before the first post; every later phase runs with it, and no step deletes
\* it: it still exists when the invocation ends.
C29_WebhookCreatedOnceNeverDeleted ==
    [][/\ webhook' # webhook =>
             /\ pc = "webhook"
             /\ webhook = "none"
             /\ webhook' = "created"
             /\ Resolved
             /\ relayed_messages = <<>>
       /\ webhook = "created" => webhook' = "created"
       /\ pc' \in {"relay", "rollback_thread", "rollback_msgs",
                   "delete_originals"} => webhook' = "created"
       /\ relayed_messages' # <<>> => webhook' = "created"]_vars

\* A rollback deleted the created thread and the webhook is still there.
C29_Witness ==
    /\ pc = "done"
    /\ abort_relaying
    /\ thread_state = "deleted"
    /\ Len(relayed_messages) = 2
    /\ webhook = "created"

\* C30: an attachment that cannot be re-uploaded while a message is relayed
\* does not abort the relay: the message is posted without it and counted as
\* relayed, and its original is deleted when the workflow succeeds.  The same
\* failure while a new forum post is seeded ends the workflow in error before
\* the post is created.
C30_AttachmentFailureDoesNotAbortRelay ==
    /\ Resolved =>
          /\ failed_attachments \subseteq Range(relayed_messages)
          /\ (result = "ok" /\ pc = "done") =>
                failed_attachments \subseteq deleted_originals
    /\ (~Resolved /\ failed_attachments # {}) =>
          /\ move_options.kind = "NewForumPost"
          /\ pc = "done"
          /\ result = "err"
          /\ thread_state = "none"
          /\ webhook = "none"
          /\ copies = <<>>

\* The first of two messages was posted without its attachment, the second
\* post went on, and both originals were deleted.
C30_Witness ==
    /\ pc = "done"
    /\ result = "ok"
    /\ Len(relayed_messages) = 2
    /\ failed_attachments = {relayed_messages[1]}
    /\ deleted_originals = Range(relayed_messages)
    /\ copies = relayed_messages

\* The original the first invocation is about to delete is one the second
\* invocation has already deleted.
LostRace ==
    /\ pc = "delete_originals"
    /\ idx < Len(Filtered)
    /\ Filtered[idx + 1].id \in other.deleted_originals

\* C25: two invocations over the same run are not coordinated.  Both relay
\* the same message, and when one comes to delete an original the other has
\* already deleted, nothing passes it over: the deletion fails, the workflow
\* ends in error and its copies, that message's included, stay committed at
\* its destination next to the other invocation's copy.
C25_DeleteAfterMoveRace ==
    [][(LostRace /\ <<pc, idx>>' # <<pc, idx>>) =>
          /\ pc' = "done"
          /\ result' = "err"
          /\ copies' = relayed_messages
          /\ Filtered[idx + 1].id \in Range(copies')
          /\ Filtered[idx + 1].id \in Range(other.copies)
          /\ UNCHANGED <<deleted_originals, thread_state>>]_vars

\* Both invocations relayed the whole run; the second deleted the first
\* original and went on to finish; the first then failed to delete it, with
\* its copies in place.
C25_Witness ==
    /\ OriginalDeleteFailed
    /\ idx = 0
    /\ Filtered[1].id \in other.deleted_originals
    /\ Filtered[1].id \in Range(copies)
    /\ Filtered[1].id \in Range(other.copies)
    /\ other.result = "ok"
    /\ result = "err"

====
